---- MODULE Spec2Model ----
(***************************************************************************)
(* Model of the AVIF encode/decode library (avif.go) and of its command    *)
(* line front end (cmd/main.go).                                           *)
(*                                                                         *)
(* One call runs at a time: `op` names the running function and `pc` its   *)
(* position.  Native resources (planar units, encoder and decoder          *)
(* contexts, byte buffers) carry a count of how often each was released,   *)
(* so that a leak and a double release are both visible.  The native       *)
(* engine is an environment: every call that can report non-success does   *)
(* so nondeterministically, except that what it reads from the input bytes *)
(* (attach, parse, decode, dimensions) is a function of those bytes.       *)
(***************************************************************************)
EXTENDS Integers, Sequences, FiniteSets, TLC

VARIABLES
    op,          \* running function: "none", "Encode", "createTiles", "Decode", "DecodeConfig", "main"
    pc,          \* position inside the running function
    options,     \* Options{Speed, AlphaQuality, ColorQuality} of the Encode call
    width,       \* rgba.Bounds().Dx()
    height,      \* rgba.Bounds().Dy()
    tileWidth,   \* createTiles parameter tileWidth
    tileHeight,  \* createTiles parameter tileHeight
    cols,        \* encodeAVIF's cols
    rows,        \* encodeAVIF's rows
    row,         \* createTiles loop variable row
    col,         \* createTiles loop variable col
    units,       \* every avifImage created in this call, in creation order
    cellImages,  \* the slice of unit handles (indexes into units)
    rgbAllocs,   \* C.malloc calls for the avifRGBImage struct
    rgbFrees,    \* C.free calls for the avifRGBImage struct
    encoder,     \* the avifEncoder context
    encodedData, \* the avifRWData output buffer
    gridCall,    \* arguments of the avifEncoderAddImageGrid call, once made
    stride,      \* rgba.Stride
    pix,         \* rgba.Pix (Go index k is pix[k + 1]); empty where bytes are not modelled
    tileBuffer,  \* createTiles' scratch buffer tileBuffer
    srcRead,     \* Go indexes of rgba.Pix read by the row copy of the current tile
    dstWritten,  \* Go indexes of tilePix written by the row copy of the current tile
    data,        \* the compressed input bytes of Decode / DecodeConfig
    cData,       \* the C.CBytes copy of the input
    decoder,     \* the avifDecoder context
    rgbPixels,   \* the pixel buffer of avifRGBImageAllocatePixels
    rgb,         \* the avifRGBImage rgb: width, height, rowBytes and the bytes at pixels
    img,         \* the image.RGBA img of decodeAVIFToRGBA: Stride and Pix
    nativeCalls, \* the native calls made by the running decode function, in order
    decOut,      \* the image decodeAVIFToRGBA returned
    cfgOut,      \* the image.Config decodeConfig returned
    args,        \* command line of the CLI: the command and its arguments
    printed,     \* what the CLI printed
    exitCode,    \* exit status of the CLI process (-1 while it runs)
    defers,      \* Go's stack of deferred calls of the running function
    result       \* what the running function returned

encVars == <<options, width, height, tileWidth, tileHeight, cols, rows, row, col,
             units, cellImages, rgbAllocs, rgbFrees, encoder, encodedData, gridCall,
             stride, pix, tileBuffer, srcRead, dstWritten>>

pixVars == <<stride, pix, tileBuffer, srcRead, dstWritten>>

decVars == <<data, cData, decoder, rgbPixels, rgb, img, nativeCalls, decOut, cfgOut>>

cliVars == <<args, printed, exitCode>>

(***************************************************************************)
(* Bounds of the model.                                                    *)
(***************************************************************************)
MaxDim == 4       \* largest width/height of a direct createTiles call
MaxTile == 3      \* largest tile maximum of a direct createTiles call
MaxGrid == 2      \* largest number of tile columns/rows of an encodeAVIF call
MaxPad == 2       \* largest row padding (bytes beyond width*4) of a stride
MaxLen == 2       \* largest length of a compressed input
MaxImage == 2     \* largest width/height a compressed input declares

(***************************************************************************)
(* Program constants.                                                      *)
(***************************************************************************)
EncTileWidth == 16384
EncTileHeight == 8704
MinSpeed == 0
MaxSpeed == 10
MinQuality == 0
MaxQuality == 100

NoResult == [ok |-> FALSE, err |-> "pending"]
Ok == [ok |-> TRUE, err |-> ""]
Err(msg) == [ok |-> FALSE, err |-> msg]

NoEncoder == [state |-> "none", destroys |-> 0, speed |-> 0, quality |-> 0, qualityAlpha |-> 0]
NoData == [state |-> "null", frees |-> 0]
NoGrid == [made |-> FALSE, cols |-> 0, rows |-> 0, cells |-> <<>>]
NoOptions == [Speed |-> 0, AlphaQuality |-> 0, ColorQuality |-> 0]

(***************************************************************************)
(* Tile geometry of createTiles.                                           *)
(***************************************************************************)
\* (width + tileWidth - 1) / tileWidth
CeilDiv(n, t) == (n + t - 1) \div t

ClampUnclamped(hi, limit) == hi

\* if x1 > width { x1 = width }
Clamp(hi, limit) == IF hi > limit THEN limit ELSE hi

\* the tile boundaries of cell (c, r)
TileRect(c, r, w, h, tw, th) ==
    [x0 |-> c * tw, y0 |-> r * th,
     x1 |-> Clamp(c * tw + tw, w), y1 |-> Clamp(r * th + th, h)]

(***************************************************************************)
(* Planar units.                                                           *)
(***************************************************************************)
Occurrences(list, i) == Cardinality({j \in DOMAIN list : list[j] = i})

\* C.avifImageDestroy on every handle of list
DestroyAll(us, list) ==
    [i \in DOMAIN us |-> [us[i] EXCEPT !.destroys = @ + Occurrences(list, i)]]

TilesCleanupLeak(us, list) == us

\* createTiles: "Clean up already created tiles"
TilesCleanup(us, list) == DestroyAll(us, list)

DeferredCellDestroyNone(us, list) == us

\* encodeAVIF: the deferred loop over cellImages
DeferredCellDestroy(us, list) == DestroyAll(us, list)

AppendCellFront(list, handle) == <<handle>> \o list

\* cellImages = append(cellImages, avifImage)
AppendCell(list, handle) == Append(list, handle)

\* C.avifImageCreate for tile (c, r); src: the bytes avifImageRGBToYUV read into it
NewUnit(c, r, rect, destroyed, src) ==
    [col |-> c, row |-> r, x0 |-> rect.x0, y0 |-> rect.y0, x1 |-> rect.x1, y1 |-> rect.y1,
     destroys |-> IF destroyed THEN 1 ELSE 0, src |-> src]

\* a byte of a Go slice; an index outside the slice (a panic in Go) reads as -1
At(seq, k) == IF k + 1 \in DOMAIN seq THEN seq[k + 1] ELSE -1

\* stride := tileW * 4
TileStride(tileW) == tileW * 4

\* dstOffset := y * stride
DstOffset(y, tstride) == y * tstride

SrcOffsetPacked(y, y0, x0, rstride) == (y0 + y) * rstride + x0

\* srcY := y0 + y; srcOffset := srcY*rgba.Stride + x0*4
SrcOffset(y, y0, x0, rstride) == (y0 + y) * rstride + x0 * 4

\* copy(dst[dOff:dOff+n], src[sOff:sOff+n])
CopySlice(dst, dOff, src, sOff, n) ==
    [k \in DOMAIN dst |->
        IF dOff < k /\ k <= dOff + n THEN At(src, sOff + (k - 1 - dOff)) ELSE dst[k]]

\* the "Copy rows" loop of createTiles, from row y on
RECURSIVE CopyRows(_, _, _, _, _)
CopyRows(buf, src, rect, rstride, y) ==
    LET tstride == TileStride(rect.x1 - rect.x0)
    IN  IF y >= rect.y1 - rect.y0 THEN buf
        ELSE CopyRows(CopySlice(buf, DstOffset(y, tstride), src,
                                SrcOffset(y, rect.y0, rect.x0, rstride), tstride),
                      src, rect, rstride, y + 1)

\* the indexes of rgba.Pix the loop reads
ReadIndexes(rect, rstride) ==
    UNION { { SrcOffset(y, rect.y0, rect.x0, rstride) + i :
                i \in 0..(TileStride(rect.x1 - rect.x0) - 1) } :
            y \in 0..(rect.y1 - rect.y0 - 1) }

\* the indexes of tilePix the loop writes
WriteIndexes(rect) ==
    UNION { { DstOffset(y, TileStride(rect.x1 - rect.x0)) + i :
                i \in 0..(TileStride(rect.x1 - rect.x0) - 1) } :
            y \in 0..(rect.y1 - rect.y0 - 1) }

RgbRowBytesMax(tstride, maxW) == maxW * 4

\* rgb.rowBytes = C.uint32_t(stride)
RgbRowBytes(tstride, maxW) == tstride

\* the bytes avifImageRGBToYUV reads: h rows of w*4 bytes, rowBytes apart
ConvertInput(pixels, w, h, rowBytes) ==
    [k \in 1..(w * 4 * h) |->
        At(pixels, ((k - 1) \div (w * 4)) * rowBytes + ((k - 1) % (w * 4)))]

\* the source image of a direct createTiles call: byte k holds k (mod 256), so that
\* every byte of the image is told apart from every other
SourcePix(n) == [k \in 1..n |-> (k - 1) % 256]

Zeroes(n) == [k \in 1..n |-> 0]

TileOutcomes == {"create_nil", "malloc_nil", "convert_fail", "ok"}

\* createAVIFTile: the unit list, the malloc/free counts, the handle (0 = nil) and the error
createAVIFTile(us, c, r, rect, outcome, src) ==
    CASE outcome = "create_nil" ->
           [units |-> us, mallocs |-> 0, frees |-> 0, handle |-> 0,
            err |-> "failed to create AVIF image for tile"]
      [] outcome = "malloc_nil" ->
           [units |-> Append(us, NewUnit(c, r, rect, TRUE, <<>>)), mallocs |-> 0, frees |-> 0,
            handle |-> 0, err |-> "failed to allocate avifRGBImage for tile"]
      [] outcome = "convert_fail" ->
           [units |-> Append(us, NewUnit(c, r, rect, TRUE, src)), mallocs |-> 1, frees |-> 1,
            handle |-> 0, err |-> "failed to convert tile from RGB to YUV"]
      [] OTHER ->
           [units |-> Append(us, NewUnit(c, r, rect, FALSE, src)), mallocs |-> 1, frees |-> 1,
            handle |-> Len(us) + 1, err |-> ""]

(***************************************************************************)
(* Options validation of the Encode facade.                                *)
(***************************************************************************)
ValidateOptionsOffByOne(o) ==
    IF o.Speed < MinSpeed \/ o.Speed > MaxSpeed + 1 THEN "speed must be between 0 and 10"
    ELSE IF o.AlphaQuality < MinQuality \/ o.AlphaQuality > MaxQuality
         THEN "alpha quality must be between 0 and 100"
    ELSE IF o.ColorQuality < MinQuality \/ o.ColorQuality > MaxQuality
         THEN "color quality must be between 0 and 100"
    ELSE ""

ValidateOptions(o) ==
    IF o.Speed < MinSpeed \/ o.Speed > MaxSpeed THEN "speed must be between 0 and 10"
    ELSE IF o.AlphaQuality < MinQuality \/ o.AlphaQuality > MaxQuality
         THEN "alpha quality must be between 0 and 100"
    ELSE IF o.ColorQuality < MinQuality \/ o.ColorQuality > MaxQuality
         THEN "color quality must be between 0 and 100"
    ELSE ""

SpeedValues == {MinSpeed - 1, MinSpeed, MaxSpeed, MaxSpeed + 1}
QualityValues == {MinQuality - 1, MinQuality, MaxQuality, MaxQuality + 1}
OptionValues ==
    { [Speed |-> s, AlphaQuality |-> a, ColorQuality |-> c] :
        s \in SpeedValues, a \in QualityValues, c \in QualityValues }

\* image sizes around the tile boundaries of encodeAVIF, and the empty image
EncSizes(t) == {0} \cup { (k - 1) * t + 1 : k \in 1..MaxGrid } \cup { k * t : k \in 1..MaxGrid }

(***************************************************************************)
(* The decoder side: inputs and native resources.                          *)
(***************************************************************************)
\* Compressed inputs.  What the engine reports for attach / parse / decode and the
\* dimensions it reads from the container are a function of the bytes; a parse
\* that succeeds yields positive dimensions, and decoding leaves them as parsed.
Inputs ==
    { [len |-> 0, io |-> FALSE, parse |-> FALSE, next |-> FALSE, w |-> 0, h |-> 0] }
    \cup { [len |-> n, io |-> i, parse |-> p, next |-> x, w |-> w, h |-> h] :
             n \in 1..MaxLen, i \in BOOLEAN, p \in BOOLEAN, x \in BOOLEAN,
             w \in 1..MaxImage, h \in 1..MaxImage }

NoInput == [len |-> 0, io |-> FALSE, parse |-> FALSE, next |-> FALSE, w |-> 0, h |-> 0]
NoBuffer == [state |-> "none", frees |-> 0]
NoDecoder == [state |-> "none", destroys |-> 0, width |-> 0, height |-> 0]
NoImage == [set |-> FALSE, Width |-> 0, Height |-> 0]
NoRGB == [width |-> 0, height |-> 0, rowBytes |-> 0, pixels |-> <<>>]
NoRGBA == [Stride |-> 0, Pix |-> <<>>]

IsEmptyNever(d) == FALSE

\* len(data) == 0
IsEmpty(d) == d.len = 0

Free(buf) == [buf EXCEPT !.state = "freed", !.frees = @ + 1]

DecoderKeep(dec) == dec

\* avifDecoderDestroy(decoder)
DecoderDestroy(dec) == [dec EXCEPT !.state = "destroyed", !.destroys = @ + 1]

ErrorImageAllocated(w, h) == [set |-> TRUE, Width |-> w, Height |-> h]

\* return nil, fmt.Errorf(...): the image decodeAVIFToRGBA returns with an error
ErrorImage(w, h) == NoImage

\* return image.Config{}, fmt.Errorf(...): the configuration decodeConfig returns with
\* an error; w, h are the out-parameters get_avif_config left behind
ErrorConfig(w, h) == NoImage

\* image.NewRGBA(image.Rect(0, 0, width, height))
NewRGBA(w, h) == [Stride |-> 4 * w, Pix |-> Zeroes(4 * w * h)]

RowBytesPacked(rgbImage) == rgbImage.width * 4

\* rowBytes := int(rgb.rowBytes)
RowBytesOf(rgbImage) == rgbImage.rowBytes

\* the row loop of decodeAVIFToRGBA, from row y on: srcPtr is rgb.pixels + y*rowBytes,
\* dstOffset is y*img.Stride, and 4*width bytes are copied
RECURSIVE DecodeCopyRows(_, _, _, _, _)
DecodeCopyRows(image, rgbImage, w, h, y) ==
    IF y >= h THEN image
    ELSE DecodeCopyRows(
             [image EXCEPT !.Pix = CopySlice(@, y * image.Stride, rgbImage.pixels,
                                             y * RowBytesOf(rgbImage), 4 * w)],
             rgbImage, w, h, y + 1)

ConfigDimsSwapped(dec) == [w |-> dec.height, h |-> dec.width]

\* *width = decoder->image->width; *height = decoder->image->height
ConfigDims(dec) == [w |-> dec.width, h |-> dec.height]

(***************************************************************************)
(* Initial state: no call is running.                                      *)
(***************************************************************************)
Idle == pc = "idle"

Init ==
    /\ op = "none" /\ pc = "idle"
    /\ options = NoOptions
    /\ width = 0 /\ height = 0 /\ tileWidth = 0 /\ tileHeight = 0
    /\ cols = 0 /\ rows = 0 /\ row = 0 /\ col = 0
    /\ units = <<>> /\ cellImages = <<>>
    /\ rgbAllocs = 0 /\ rgbFrees = 0
    /\ encoder = NoEncoder /\ encodedData = NoData /\ gridCall = NoGrid
    /\ stride = 0 /\ pix = <<>> /\ tileBuffer = <<>> /\ srcRead = {} /\ dstWritten = {}
    /\ data = NoInput /\ cData = NoBuffer /\ decoder = NoDecoder /\ rgbPixels = NoBuffer
    /\ rgb = NoRGB /\ img = NoRGBA
    /\ nativeCalls = <<>> /\ decOut = NoImage /\ cfgOut = NoImage
    /\ args = <<>> /\ printed = "nothing" /\ exitCode = -1
    /\ defers = <<>>
    /\ result = NoResult

\* the caller has taken the result; the next call starts from a clean slate
nextCall ==
    /\ pc = "done"
    /\ op' = "none" /\ pc' = "idle"
    /\ options' = NoOptions
    /\ width' = 0 /\ height' = 0 /\ tileWidth' = 0 /\ tileHeight' = 0
    /\ cols' = 0 /\ rows' = 0 /\ row' = 0 /\ col' = 0
    /\ units' = <<>> /\ cellImages' = <<>>
    /\ rgbAllocs' = 0 /\ rgbFrees' = 0
    /\ encoder' = NoEncoder /\ encodedData' = NoData /\ gridCall' = NoGrid
    /\ stride' = 0 /\ pix' = <<>> /\ tileBuffer' = <<>> /\ srcRead' = {} /\ dstWritten' = {}
    /\ data' = NoInput /\ cData' = NoBuffer /\ decoder' = NoDecoder /\ rgbPixels' = NoBuffer
    /\ rgb' = NoRGB /\ img' = NoRGBA
    /\ nativeCalls' = <<>> /\ decOut' = NoImage /\ cfgOut' = NoImage
    /\ args' = <<>> /\ printed' = "nothing" /\ exitCode' = -1
    /\ defers' = <<>>
    /\ result' = NoResult

(***************************************************************************)
(* Encode (facade): validate the options, then call encodeAVIF.            *)
(***************************************************************************)
Encode ==
    /\ Idle
    /\ \E o \in OptionValues, w \in EncSizes(EncTileWidth), h \in EncSizes(EncTileHeight) :
         /\ op' = "Encode"
         /\ options' = o /\ width' = w /\ height' = h /\ stride' = 4 * w
         /\ IF ValidateOptions(o) # ""
            THEN /\ result' = Err(ValidateOptions(o))
                 /\ pc' = "done"
            ELSE /\ result' = NoResult
                 /\ pc' = "encodeAVIF"
    /\ UNCHANGED <<tileWidth, tileHeight, cols, rows, row, col, units, cellImages,
                   rgbAllocs, rgbFrees, encoder, encodedData, gridCall, defers,
                   pix, tileBuffer, srcRead, dstWritten, decVars, cliVars>>

\* encodeAVIF, lines 90-106: dimension check, grid shape, call of createTiles
encodeAVIF ==
    /\ op = "Encode" /\ pc = "encodeAVIF"
    /\ IF width = 0 \/ height = 0
       THEN /\ result' = Err("invalid image dimensions")
            /\ pc' = "done"
            /\ UNCHANGED <<tileWidth, tileHeight, cols, rows>>
       ELSE /\ tileWidth' = EncTileWidth
            /\ tileHeight' = EncTileHeight
            /\ cols' = CeilDiv(width, EncTileWidth)
            /\ rows' = CeilDiv(height, EncTileHeight)
            /\ pc' = "createTiles"
            /\ UNCHANGED result
    /\ UNCHANGED <<op, options, width, height, row, col, units, cellImages,
                   rgbAllocs, rgbFrees, encoder, encodedData, gridCall, defers,
                   pixVars, decVars, cliVars>>

\* a direct call of createTiles(rgba, tileWidth, tileHeight) on a non-empty image
createTilesCall ==
    /\ Idle
    /\ \E w \in 1..MaxDim, h \in 1..MaxDim, tw \in 1..MaxTile, th \in 1..MaxTile,
          pad \in 0..MaxPad :
         /\ op' = "createTiles" /\ pc' = "createTiles"
         /\ width' = w /\ height' = h /\ tileWidth' = tw /\ tileHeight' = th
         /\ stride' = w * 4 + pad
         /\ pix' = SourcePix((w * 4 + pad) * h)
         \* maxTileSize := tileWidth * tileHeight * 4; tileBuffer := make([]byte, maxTileSize)
         /\ tileBuffer' = Zeroes(tw * th * 4)
    /\ UNCHANGED <<options, cols, rows, row, col, units, cellImages, rgbAllocs, rgbFrees,
                   encoder, encodedData, gridCall, defers, result, srcRead, dstWritten,
                   decVars, cliVars>>

\* createTiles' own cols and rows (lines 162-163)
TileCols == CeilDiv(width, tileWidth)
TileRows == CeilDiv(height, tileHeight)

\* the tile of the current loop iteration
CurrentRect == TileRect(col, row, width, height, tileWidth, tileHeight)

\* one iteration of the loop of createTiles, lines 173-200: the tile boundaries and the
\* row copy into the scratch buffer (bytes are modelled for direct calls only)
createTilesStep ==
    /\ op \in {"Encode", "createTiles"} /\ pc = "createTiles"
    /\ row < TileRows
    /\ IF op = "createTiles"
       THEN /\ tileBuffer' = CopyRows(tileBuffer, pix, CurrentRect, stride, 0)
            /\ srcRead' = ReadIndexes(CurrentRect, stride)
            /\ dstWritten' = WriteIndexes(CurrentRect)
       ELSE UNCHANGED <<tileBuffer, srcRead, dstWritten>>
    /\ pc' = "createAVIFTile"
    /\ UNCHANGED <<op, options, width, height, tileWidth, tileHeight, cols, rows, row, col,
                   units, cellImages, rgbAllocs, rgbFrees, encoder, encodedData, gridCall,
                   stride, pix, defers, result, decVars, cliVars>>

\* the bytes the conversion of the current tile reads from tilePix
CurrentInput ==
    IF op = "createTiles"
    THEN ConvertInput(tileBuffer, CurrentRect.x1 - CurrentRect.x0,
                      CurrentRect.y1 - CurrentRect.y0,
                      RgbRowBytes(TileStride(CurrentRect.x1 - CurrentRect.x0), tileWidth))
    ELSE <<>>

\* the rest of the iteration, lines 202-214: createAVIFTile, cleanup on error, append
createAVIFTileCall ==
    /\ op \in {"Encode", "createTiles"} /\ pc = "createAVIFTile"
    /\ \E outcome \in TileOutcomes :
         LET t == createAVIFTile(units, col, row, CurrentRect, outcome, CurrentInput)
         IN  /\ rgbAllocs' = rgbAllocs + t.mallocs
             /\ rgbFrees' = rgbFrees + t.frees
             /\ IF t.handle = 0
                THEN /\ units' = TilesCleanup(t.units, cellImages)
                     /\ cellImages' = <<>>
                     /\ result' = Err(t.err)
                     /\ pc' = "done"
                     /\ UNCHANGED <<row, col>>
                ELSE /\ units' = t.units
                     /\ cellImages' = AppendCell(cellImages, t.handle)
                     /\ IF col + 1 < TileCols
                        THEN col' = col + 1 /\ row' = row
                        ELSE col' = 0 /\ row' = row + 1
                     /\ pc' = "createTiles"
                     /\ UNCHANGED result
    /\ UNCHANGED <<op, options, width, height, tileWidth, tileHeight, cols, rows,
                   encoder, encodedData, gridCall, defers, pixVars, decVars, cliVars>>

\* createTiles returns the full list (line 218); encodeAVIF defers the unit cleanup (111-117)
createTilesReturn ==
    /\ op \in {"Encode", "createTiles"} /\ pc = "createTiles"
    /\ row >= TileRows
    /\ IF op = "Encode"
       THEN /\ defers' = Append(defers, "destroyCells")
            /\ pc' = "encoderCreate"
            /\ UNCHANGED result
       ELSE /\ result' = Ok
            /\ pc' = "done"
            /\ UNCHANGED defers
    /\ UNCHANGED <<op, encVars, decVars, cliVars>>

\* C.avifEncoderCreate and the encoder settings (lines 120-129)
encoderCreate ==
    /\ op = "Encode" /\ pc = "encoderCreate"
    /\ \E ok \in BOOLEAN :
         IF ok
         THEN /\ encoder' = [state |-> "live", destroys |-> 0, speed |-> options.Speed,
                             quality |-> options.ColorQuality,
                             qualityAlpha |-> options.AlphaQuality]
              /\ defers' = Append(defers, "encoderDestroy")
              /\ pc' = "addImageGrid"
              /\ UNCHANGED result
         ELSE /\ result' = Err("failed to create AVIF encoder")
              /\ pc' = "return"
              /\ UNCHANGED <<encoder, defers>>
    /\ UNCHANGED <<op, options, width, height, tileWidth, tileHeight, cols, rows, row, col,
                   units, cellImages, rgbAllocs, rgbFrees, encodedData, gridCall,
                   pixVars, decVars, cliVars>>

\* C.avifEncoderAddImageGrid (lines 132-138)
addImageGrid ==
    /\ op = "Encode" /\ pc = "addImageGrid"
    /\ gridCall' = [made |-> TRUE, cols |-> cols, rows |-> rows, cells |-> cellImages]
    /\ \E ok \in BOOLEAN :
         IF ok
         THEN pc' = "finish" /\ UNCHANGED result
         ELSE pc' = "return" /\ result' = Err("failed to add image grid")
    /\ UNCHANGED <<op, options, width, height, tileWidth, tileHeight, cols, rows, row, col,
                   units, cellImages, rgbAllocs, rgbFrees, encoder, encodedData, defers,
                   pixVars, decVars, cliVars>>

\* what encodeAVIF defers when avifEncoderFinish reports non-success (lines 146-149): nothing
FinishFailureDefers(d) == d

\* C.avifEncoderFinish, the deferred avifRWDataFree and the copy to Go (lines 141-153);
\* on non-success the engine may or may not have allocated the output already
encoderFinish ==
    /\ op = "Encode" /\ pc = "finish"
    /\ \E ok \in BOOLEAN, populated \in BOOLEAN :
         IF ok
         THEN /\ populated
              /\ encodedData' = [state |-> "allocated", frees |-> 0]
              /\ defers' = Append(defers, "rwDataFree")
              /\ result' = Ok
         ELSE /\ encodedData' = [state |-> IF populated THEN "allocated" ELSE "null",
                                 frees |-> 0]
              /\ defers' = FinishFailureDefers(defers)
              /\ result' = Err("failed to finish encoding")
    /\ pc' = "return"
    /\ UNCHANGED <<op, options, width, height, tileWidth, tileHeight, cols, rows, row, col,
                   units, cellImages, rgbAllocs, rgbFrees, encoder, gridCall,
                   pixVars, decVars, cliVars>>

(***************************************************************************)
(* decodeAVIFToRGBA and decodeConfig.                                      *)
(***************************************************************************)
\* decodeAVIFToRGBA, lines 254-260: the empty check, C.CBytes and the deferred C.free
decodeAVIFToRGBA ==
    /\ Idle
    /\ \E d \in Inputs :
         /\ op' = "Decode"
         /\ data' = d
         /\ IF IsEmpty(d)
            THEN /\ result' = Err("cannot decode empty data")
                 /\ pc' = "done"
                 /\ UNCHANGED <<cData, nativeCalls, defers>>
            ELSE /\ cData' = [state |-> "allocated", frees |-> 0]
                 /\ nativeCalls' = Append(nativeCalls, "CBytes")
                 /\ defers' = Append(defers, "free")
                 /\ pc' = "decoderCreate"
                 /\ UNCHANGED result
    /\ UNCHANGED <<encVars, decoder, rgbPixels, rgb, img, decOut, cfgOut, cliVars>>

\* decodeConfig, lines 311-317, on fresh input (d given) or on the bytes just decoded
decodeConfigOn(d) ==
    /\ op' = "DecodeConfig"
    /\ data' = d
    /\ cfgOut' = NoImage
    /\ IF IsEmpty(d)
       THEN /\ result' = Err("failed to get AVIF image config: empty data")
            /\ pc' = "done"
            /\ cData' = NoBuffer /\ nativeCalls' = <<>> /\ defers' = <<>>
       ELSE /\ cData' = [state |-> "allocated", frees |-> 0]
            /\ nativeCalls' = <<"CBytes">>
            /\ defers' = <<"free">>
            /\ pc' = "decoderCreate"
            /\ result' = NoResult
    /\ decoder' = NoDecoder /\ rgbPixels' = NoBuffer
    /\ rgb' = NoRGB /\ img' = NoRGBA
    /\ UNCHANGED <<encVars, decOut, cliVars>>

decodeConfig ==
    /\ Idle
    /\ \E d \in Inputs : decodeConfigOn(d)

\* DecodeConfig on the same bytes a finished Decode call was given
decodeConfigSame ==
    /\ op = "Decode" /\ pc = "done"
    /\ decodeConfigOn(data)

\* avifDecoderCreate (lines 17-19 and 48-50)
decoderCreate ==
    /\ op \in {"Decode", "DecodeConfig"} /\ pc = "decoderCreate"
    /\ decoder' = [state |-> "live", destroys |-> 0, width |-> 0, height |-> 0]
    /\ nativeCalls' = Append(nativeCalls, "avifDecoderCreate")
    /\ pc' = "setIOMemory"
    /\ UNCHANGED <<op, encVars, data, cData, rgbPixels, rgb, img, decOut, cfgOut, cliVars,
                   defers, result>>

\* the error decodeAVIFToRGBA / decodeConfig return when the native function failed
NativeError == IF op = "Decode" THEN Err("failed to decode AVIF image")
               ELSE Err("failed to get AVIF image config")

\* a native step reported non-success: the context is destroyed and the error returned
nativeFails(call) ==
    /\ decoder' = DecoderDestroy(decoder)
    /\ nativeCalls' = nativeCalls \o <<call, "avifDecoderDestroy">>
    /\ result' = NativeError
    /\ pc' = "return"

\* avifDecoderSetIOMemory (lines 21-25 and 52-58)
setIOMemory ==
    /\ op \in {"Decode", "DecodeConfig"} /\ pc = "setIOMemory"
    /\ IF data.io
       THEN /\ nativeCalls' = Append(nativeCalls, "avifDecoderSetIOMemory")
            /\ pc' = "parse"
            /\ UNCHANGED <<decoder, result>>
       ELSE nativeFails("avifDecoderSetIOMemory")
    /\ UNCHANGED <<op, encVars, data, cData, rgbPixels, rgb, img, decOut, cfgOut, cliVars,
                   defers>>

\* avifDecoderParse (lines 27-31 and 60-66)
parse ==
    /\ op \in {"Decode", "DecodeConfig"} /\ pc = "parse"
    /\ IF data.parse
       THEN /\ decoder' = [decoder EXCEPT !.width = data.w, !.height = data.h]
            /\ nativeCalls' = Append(nativeCalls, "avifDecoderParse")
            /\ pc' = IF op = "Decode" THEN "nextImage" ELSE "configRead"
            /\ UNCHANGED result
       ELSE nativeFails("avifDecoderParse")
    /\ UNCHANGED <<op, encVars, data, cData, rgbPixels, rgb, img, decOut, cfgOut, cliVars,
                   defers>>

\* avifDecoderNextImage (lines 33-43) and the deferred avifDecoderDestroy (line 269)
nextImage ==
    /\ op = "Decode" /\ pc = "nextImage"
    /\ IF data.next
       THEN /\ nativeCalls' = Append(nativeCalls, "avifDecoderNextImage")
            /\ defers' = Append(defers, "avifDecoderDestroy")
            /\ pc' = "allocatePixels"
            /\ UNCHANGED <<decoder, result>>
       ELSE /\ nativeFails("avifDecoderNextImage")
            /\ UNCHANGED defers
    /\ UNCHANGED <<op, encVars, data, cData, rgbPixels, rgb, img, decOut, cfgOut, cliVars>>

\* get_avif_config lines 68-70 and decodeConfig lines 323-337
configRead ==
    /\ op = "DecodeConfig" /\ pc = "configRead"
    /\ decoder' = DecoderDestroy(decoder)
    /\ nativeCalls' = Append(nativeCalls, "avifDecoderDestroy")
    /\ LET dims == ConfigDims(decoder)
       IN  IF dims.w = 0 \/ dims.h = 0
           THEN /\ result' = Err("invalid image dimensions")
                /\ cfgOut' = ErrorConfig(dims.w, dims.h)
           ELSE /\ result' = Ok
                /\ cfgOut' = [set |-> TRUE, Width |-> dims.w, Height |-> dims.h]
    /\ pc' = "return"
    /\ UNCHANGED <<op, encVars, data, cData, rgbPixels, rgb, img, decOut, cliVars,
                   defers>>

\* avifRGBImageAllocatePixels and the deferred avifRGBImageFreePixels (lines 272-281)
allocatePixels ==
    /\ op = "Decode" /\ pc = "allocatePixels"
    /\ nativeCalls' = Append(nativeCalls, "avifRGBImageAllocatePixels")
    /\ \E ok \in BOOLEAN :
         IF ok
         THEN /\ rgbPixels' = [state |-> "allocated", frees |-> 0]
              \* the engine chooses the row pitch, at least 4 bytes per pixel
              /\ \E pad \in 0..MaxPad :
                   rgb' = [width |-> decoder.width, height |-> decoder.height,
                           rowBytes |-> decoder.width * 4 + pad,
                           pixels |-> Zeroes((decoder.width * 4 + pad) * decoder.height)]
              /\ defers' = Append(defers, "avifRGBImageFreePixels")
              /\ pc' = "yuvToRGB"
              /\ UNCHANGED <<result, decOut>>
         ELSE /\ result' = Err("failed to allocate RGB pixels")
              /\ decOut' = ErrorImage(decoder.width, decoder.height)
              /\ pc' = "return"
              /\ UNCHANGED <<rgbPixels, rgb, defers>>
    /\ UNCHANGED <<op, encVars, data, cData, decoder, img, cfgOut, cliVars>>

\* avifImageYUVToRGB (lines 284-288)
yuvToRGB ==
    /\ op = "Decode" /\ pc = "yuvToRGB"
    /\ nativeCalls' = Append(nativeCalls, "avifImageYUVToRGB")
    /\ \E ok \in BOOLEAN :
         IF ok
         THEN /\ pc' = "copyRows"
              \* the engine writes the pixels: every byte of the buffer told apart
              /\ rgb' = [rgb EXCEPT !.pixels = SourcePix(Len(@))]
              /\ UNCHANGED <<result, decOut>>
         ELSE /\ pc' = "return"
              /\ result' = Err("failed to convert image to RGB")
              /\ decOut' = ErrorImage(decoder.width, decoder.height)
              /\ UNCHANGED rgb
    /\ UNCHANGED <<op, encVars, data, cData, decoder, rgbPixels, img, cfgOut, cliVars,
                   defers>>

\* image.NewRGBA and the row-by-row copy (lines 290-304)
copyRows ==
    /\ op = "Decode" /\ pc = "copyRows"
    /\ decOut' = [set |-> TRUE, Width |-> decoder.width, Height |-> decoder.height]
    /\ img' = DecodeCopyRows(NewRGBA(decoder.width, decoder.height), rgb,
                             decoder.width, decoder.height, 0)
    /\ result' = Ok
    /\ pc' = "return"
    /\ UNCHANGED <<op, encVars, data, cData, decoder, rgbPixels, rgb, nativeCalls, cfgOut,
                   cliVars, defers>>

(***************************************************************************)
(* Function return: Go runs the deferred calls last-in first-out.          *)
(***************************************************************************)
NextDeferredFirst(d) == 1

\* defer: the deferred calls of a function run in reverse order of their defer statements
NextDeferred(d) == Len(d)

\* the deferred calls still to run once number k has run
RemoveAt(d, k) == SubSeq(d, 1, k - 1) \o SubSeq(d, k + 1, Len(d))

runDefer ==
    /\ pc = "return" /\ defers # <<>>
    /\ LET d == defers[NextDeferred(defers)]
       IN  /\ defers' = RemoveAt(defers, NextDeferred(defers))
           /\ units' = IF d = "destroyCells" THEN DeferredCellDestroy(units, cellImages)
                       ELSE units
           /\ encoder' = IF d = "encoderDestroy"
                         THEN [encoder EXCEPT !.state = "destroyed", !.destroys = @ + 1]
                         ELSE encoder
           /\ encodedData' = IF d = "rwDataFree" THEN Free(encodedData) ELSE encodedData
           /\ rgbPixels' = IF d = "avifRGBImageFreePixels" THEN Free(rgbPixels) ELSE rgbPixels
           /\ decoder' = IF d = "avifDecoderDestroy" THEN DecoderDestroy(decoder) ELSE decoder
           /\ cData' = IF d = "free" THEN Free(cData) ELSE cData
           /\ nativeCalls' = IF op \in {"Decode", "DecodeConfig"}
                             THEN Append(nativeCalls, d) ELSE nativeCalls
    /\ UNCHANGED <<op, pc, options, width, height, tileWidth, tileHeight, cols, rows, row, col,
                   cellImages, rgbAllocs, rgbFrees, gridCall, pixVars, data, rgb, img, decOut,
                   cfgOut, cliVars, result>>

\* all deferred calls have run: the caller has the result
return ==
    /\ pc = "return" /\ defers = <<>>
    /\ pc' = "done"
    /\ UNCHANGED <<op, encVars, decVars, cliVars, defers, result>>

(***************************************************************************)
(* The command line front end.                                             *)
(***************************************************************************)
Commands == {"", "encode", "decode"}
FileNames == {"", "in", "out"}
CommandLines ==
    { <<c>> : c \in Commands }
    \cup { <<c, a>> : c \in Commands, a \in FileNames }
    \cup { <<c, a, b>> : c \in Commands, a \in FileNames, b \in FileNames }

\* the Action of the command: "panic", an error message, or "" for success
\* (lines 60-87, 94-115, 118-120); failed: encodeAvif / decodeAvif returned an error
CommandAction(line, failed) ==
    IF line[1] = "" THEN "either the command <encode> or <decode> must be used"
    ELSE IF Len(line) < 3 THEN "panic"
    ELSE IF line[2] = "" THEN "missing input file"
    ELSE IF line[3] = "" THEN "missing output file"
    ELSE IF failed THEN "conversion failed"
    ELSE ""

\* exit status of the process: a panic ends it with status 2; otherwise main returns,
\* also after printing the error of cmd.Run (lines 123-126), and the status is 0
ExitStatus(outcome) == IF outcome = "panic" THEN 2 ELSE 0

\* main (lines 14-127)
main ==
    /\ Idle
    /\ \E line \in CommandLines, failed \in BOOLEAN :
         LET outcome == CommandAction(line, failed)
         IN  /\ op' = "main" /\ pc' = "done"
             /\ args' = line
             /\ result' = IF outcome = "" THEN Ok ELSE Err(outcome)
             /\ printed' = IF outcome = "panic" THEN "panic"
                           ELSE IF outcome = "" THEN "success" ELSE "error"
             /\ exitCode' = ExitStatus(outcome)
    /\ UNCHANGED <<encVars, decVars, defers>>

vars == <<op, pc, encVars, decVars, cliVars, defers, result>>

Next ==
    \/ nextCall
    \/ Encode
    \/ encodeAVIF
    \/ createTilesCall
    \/ createTilesStep
    \/ createAVIFTileCall
    \/ createTilesReturn
    \/ encoderCreate
    \/ addImageGrid
    \/ encoderFinish
    \/ decodeAVIFToRGBA
    \/ decodeConfig
    \/ decodeConfigSame
    \/ decoderCreate
    \/ setIOMemory
    \/ parse
    \/ nextImage
    \/ configRead
    \/ allocatePixels
    \/ yuvToRGB
    \/ copyRows
    \/ runDefer
    \/ return
    \/ main

Spec == Init /\ [][Next]_vars

(***************************************************************************)
(* Properties.                                                             *)
(***************************************************************************)
TileErrors == {"failed to create AVIF image for tile",
               "failed to allocate avifRGBImage for tile",
               "failed to convert tile from RGB to YUV"}

TileFailed == op \in {"Encode", "createTiles"} /\ pc = "done" /\ result.err \in TileErrors

\* C1: when building a tile fails, every planar unit created in the call (the tiles
\* built before it and the unit allocated for the failing tile) has been destroyed
\* exactly once when the error is returned, and encodeAVIF has no cleanup pending.
TileFailureDestroysUnitsOnce ==
    TileFailed =>
        /\ \A i \in DOMAIN units : units[i].destroys = 1
        /\ rgbAllocs = rgbFrees
        /\ defers = <<>>

\* a conversion failure at a later tile, in encodeAVIF, after at least one tile was built
TileFailureWitness ==
    /\ TileFailed /\ op = "Encode"
    /\ result.err = "failed to convert tile from RGB to YUV"
    /\ Len(units) >= 2

AllTilesBuilt == op = "Encode" /\ cellImages # <<>> /\ Len(cellImages) = cols * rows

\* C2: once all tiles are built, every exit of encodeAVIF has destroyed each planar
\* unit exactly once and the encoder context exactly once if it was created, and
\* until the grid-assembly and finish calls have returned no unit is destroyed.
EncodeExitDestroysOnce ==
    AllTilesBuilt =>
        /\ \A i \in DOMAIN units : units[i].destroys <= 1
        /\ encoder.destroys <= 1
        /\ pc \in {"encoderCreate", "addImageGrid", "finish"} =>
              \A i \in DOMAIN units : units[i].destroys = 0
        /\ pc \in {"addImageGrid", "finish"} => encoder.state = "live"
        /\ pc = "done" =>
              /\ \A i \in DOMAIN units : units[i].destroys = 1
              /\ encoder.state \in {"none", "destroyed"}
              /\ encoder.state = "destroyed" => encoder.destroys = 1

\* encodeAVIF returned after avifEncoderFinish failed on a grid of several tiles
EncodeExitWitness ==
    /\ AllTilesBuilt /\ pc = "done"
    /\ result.err = "failed to finish encoding"
    /\ Len(units) >= 2
    /\ encoder.state = "destroyed"

\* C3: when encodeAVIF has returned, on success or failure, the output buffer handed
\* to avifEncoderFinish is not left allocated: it was released if the engine filled it.
EncodeReleasesOutputBuffer ==
    (op = "Encode" /\ pc = "done") =>
        /\ encodedData.state # "allocated"
        /\ encodedData.frees <= 1

TilesBuilt ==
    \/ op = "createTiles" /\ pc = "done" /\ result.ok
    \/ op = "Encode" /\ pc = "encoderCreate"

RECURSIVE AreaSum(_, _)
AreaSum(us, n) ==
    IF n = 0 THEN 0
    ELSE (us[n].x1 - us[n].x0) * (us[n].y1 - us[n].y0) + AreaSum(us, n - 1)

Covers(u, x, y) == u.x0 <= x /\ x < u.x1 /\ u.y0 <= y /\ y < u.y1

Disjoint(u, v) == u.x1 <= v.x0 \/ v.x1 <= u.x0 \/ u.y1 <= v.y0 \/ v.y1 <= u.y0

\* C4: the sub-rectangles createTiles computes each have positive width and height,
\* lie inside the image, do not overlap and together cover it: every pixel of the
\* image lies in exactly one tile.
TilesPartitionImage ==
    TilesBuilt =>
        /\ Len(units) = CeilDiv(width, tileWidth) * CeilDiv(height, tileHeight)
        /\ \A i \in DOMAIN units :
              /\ units[i].x0 = units[i].col * tileWidth
              /\ units[i].y0 = units[i].row * tileHeight
              /\ 0 <= units[i].x0 /\ units[i].x0 < units[i].x1 /\ units[i].x1 <= width
              /\ 0 <= units[i].y0 /\ units[i].y0 < units[i].y1 /\ units[i].y1 <= height
        /\ \A i, j \in DOMAIN units : i # j => Disjoint(units[i], units[j])
        /\ AreaSum(units, Len(units)) = width * height
        /\ op = "createTiles" =>
              \A x \in 0..(width - 1), y \in 0..(height - 1) :
                  Cardinality({i \in DOMAIN units : Covers(units[i], x, y)}) = 1

\* a grid whose last column and last row are narrower than the tile maxima
TilesPartitionWitness ==
    /\ op = "createTiles" /\ pc = "done" /\ result.ok
    /\ Len(units) >= 4
    /\ width % tileWidth # 0 /\ height % tileHeight # 0

\* C5: the list submitted to grid assembly holds exactly cols*rows units for the grid
\* shape of the same call, and the unit at index row*cols+col was built from tile
\* (col, row); a shorter list is never submitted.
GridRowMajorComplete ==
    gridCall.made =>
        /\ gridCall.cols = CeilDiv(width, EncTileWidth)
        /\ gridCall.rows = CeilDiv(height, EncTileHeight)
        /\ Len(gridCall.cells) = gridCall.cols * gridCall.rows
        /\ \A r \in 0..(gridCall.rows - 1), c \in 0..(gridCall.cols - 1) :
              LET u == units[gridCall.cells[r * gridCall.cols + c + 1]]
              IN  /\ u.col = c /\ u.row = r
                  /\ u.x0 = c * EncTileWidth /\ u.y0 = r * EncTileHeight

\* a grid of at least two columns and two rows was submitted
GridWitness == gridCall.made /\ gridCall.cols >= 2 /\ gridCall.rows >= 2

NativeDecodeFailed == op = "Decode" /\ result.err = "failed to decode AVIF image"

\* C6: decodeAVIFToRGBA destroys the decoder context exactly once on every path: at
\* once when attach, parse or image decode fails, and otherwise only after the pixel
\* allocation, the conversion and the row copy are over.
DecoderDestroyedOnce ==
    op = "Decode" =>
        /\ decoder.destroys <= 1
        /\ NativeDecodeFailed => decoder.destroys = 1
        /\ pc \in {"allocatePixels", "yuvToRGB", "copyRows"} =>
              decoder.state = "live" /\ decoder.destroys = 0
        /\ (pc = "done" /\ decoder.state # "none") =>
              decoder.state = "destroyed" /\ decoder.destroys = 1
        /\ (decoder.state = "destroyed" /\ ~NativeDecodeFailed) =>
              /\ pc \in {"return", "done"}
              /\ rgbPixels.state # "allocated"

\* a decode that succeeded and has returned
DecoderDestroyedWitness ==
    op = "Decode" /\ pc = "done" /\ result.ok /\ decoder.destroys = 1

\* C7: for zero-length input decodeAVIFToRGBA and decodeConfig return an error and
\* make no native call: no native buffer is allocated, no decoder context created.
EmptyInputNoNativeCall ==
    (op \in {"Decode", "DecodeConfig"} /\ data.len = 0) =>
        /\ pc = "done" /\ ~result.ok
        /\ nativeCalls = <<>>
        /\ cData.state = "none" /\ decoder.state = "none" /\ rgbPixels.state = "none"
        /\ ~decOut.set /\ ~cfgOut.set

\* decodeAVIFToRGBA was called with empty input
EmptyInputWitness == op = "Decode" /\ data.len = 0 /\ pc = "done"

Called(name) == \E i \in DOMAIN nativeCalls : nativeCalls[i] = name

\* C8: when decodeAVIFToRGBA succeeded on some bytes, decodeConfig on the same bytes
\* succeeds with the same width and height, and decodeConfig never runs the image
\* decode step.
ConfigMatchesDecode ==
    op = "DecodeConfig" =>
        /\ ~Called("avifDecoderNextImage")
        /\ (pc = "done" /\ decOut.set) =>
              /\ result.ok /\ cfgOut.set
              /\ cfgOut.Width = decOut.Width /\ cfgOut.Height = decOut.Height
              /\ Called("avifDecoderSetIOMemory") /\ Called("avifDecoderParse")

\* decodeConfig has returned for bytes that decoded to a non-square image
ConfigMatchesWitness ==
    /\ op = "DecodeConfig" /\ pc = "done" /\ decOut.set
    /\ decOut.Width # decOut.Height

SpeedOk(o) == MinSpeed <= o.Speed /\ o.Speed <= MaxSpeed
AlphaOk(o) == MinQuality <= o.AlphaQuality /\ o.AlphaQuality <= MaxQuality
ColorOk(o) == MinQuality <= o.ColorQuality /\ o.ColorQuality <= MaxQuality

EngineErrors == TileErrors \cup {"failed to create AVIF encoder", "failed to add image grid",
                                 "failed to finish encoding"}

NoBufferWork ==
    /\ units = <<>> /\ cellImages = <<>> /\ tileWidth = 0 /\ tileHeight = 0
    /\ rgbAllocs = 0 /\ encoder.state = "none" /\ encodedData.state = "null"
    /\ ~gridCall.made

\* C9: with speed in [0,10] and both qualities in [0,100], Encode of a non-empty image
\* fails only if the engine reports a failure; with one of the three values one unit
\* outside its range it fails with the validation error naming that field, before
\* any buffer work.
OptionsValidated ==
    op = "Encode" =>
        /\ (SpeedOk(options) /\ AlphaOk(options) /\ ColorOk(options)
              /\ width > 0 /\ height > 0 /\ pc = "done") =>
              (result.ok \/ result.err \in EngineErrors)
        /\ (~SpeedOk(options) /\ AlphaOk(options) /\ ColorOk(options)) =>
              result.err = "speed must be between 0 and 10"
        /\ (SpeedOk(options) /\ ~AlphaOk(options) /\ ColorOk(options)) =>
              result.err = "alpha quality must be between 0 and 100"
        /\ (SpeedOk(options) /\ AlphaOk(options) /\ ~ColorOk(options)) =>
              result.err = "color quality must be between 0 and 100"
        /\ ~(SpeedOk(options) /\ AlphaOk(options) /\ ColorOk(options)) =>
              pc = "done" /\ ~result.ok /\ NoBufferWork

\* Encode was called with speed 11 and valid qualities
OptionsValidatedWitness ==
    /\ op = "Encode" /\ pc = "done"
    /\ options.Speed = MaxSpeed + 1 /\ AlphaOk(options) /\ ColorOk(options)
    /\ result.err = "speed must be between 0 and 10"

\* C10: when a command of the CLI ends in an error, the process has printed a
\* diagnostic and its exit status is not zero.
CliErrorExitsNonZero ==
    (op = "main" /\ pc = "done" /\ ~result.ok) =>
        /\ printed \in {"error", "panic"}
        /\ exitCode # 0

DecodeErrors == {"cannot decode empty data", "failed to decode AVIF image",
                 "failed to allocate RGB pixels", "failed to convert image to RGB"}

ConfigErrors == {"failed to get AVIF image config: empty data",
                 "failed to get AVIF image config", "invalid image dimensions"}

Returning == pc \in {"return", "done"}

\* C11: decodeAVIFToRGBA and decodeConfig never return a result together with an
\* error: on every failure the image is nil and the configuration has Width and
\* Height 0, and every call ends by returning either a result or an error value.
ErrorsCarryNoResult ==
    /\ (op = "Decode" /\ Returning) =>
          /\ result.ok <=> decOut.set
          /\ ~result.ok => (decOut = NoImage /\ result.err \in DecodeErrors)
    /\ (op = "DecodeConfig" /\ Returning) =>
          /\ result.ok <=> cfgOut.set
          /\ ~result.ok =>
                (cfgOut.Width = 0 /\ cfgOut.Height = 0 /\ result.err \in ConfigErrors)
    /\ (op = "Decode" /\ ~Returning) => ~decOut.set
    /\ (op = "DecodeConfig" /\ ~Returning) => ~cfgOut.set

\* decodeAVIFToRGBA returned the conversion error for bytes that parsed and decoded
ErrorsCarryNoResultWitness ==
    /\ op = "Decode" /\ pc = "done"
    /\ result.err = "failed to convert image to RGB"
    /\ decoder.width > 0

\* the row copy of the current tile has run and its conversion has not started
RowsCopied == op = "createTiles" /\ pc = "createAVIFTile"

\* C12: after the row copy of a tile, with rgba.Stride >= width*4 and rgba.Pix of at
\* least Stride*height bytes, scratch byte y*tileW*4 + i equals source byte
\* (y0+y)*Stride + x0*4 + i for every 0 <= y < tileH and 0 <= i < tileW*4; every index
\* read is below Stride*height, every index written is below tileH*tileW*4, and that
\* never exceeds the scratch buffer's maxTileW*maxTileH*4 bytes.
RowCopyExactInBounds ==
    (RowsCopied /\ stride >= width * 4 /\ Len(pix) >= stride * height) =>
        LET tileW == CurrentRect.x1 - CurrentRect.x0
            tileH == CurrentRect.y1 - CurrentRect.y0
        IN  /\ \A y \in 0..(tileH - 1), i \in 0..(tileW * 4 - 1) :
                  tileBuffer[y * tileW * 4 + i + 1] =
                      pix[(CurrentRect.y0 + y) * stride + CurrentRect.x0 * 4 + i + 1]
            /\ \A k \in srcRead : 0 <= k /\ k < stride * height
            /\ \A k \in dstWritten : 0 <= k /\ k < tileH * tileW * 4
            /\ tileH * tileW * 4 <= tileWidth * tileHeight * 4
            /\ Len(tileBuffer) = tileWidth * tileHeight * 4

RowCopyWitness ==
    /\ RowsCopied
    /\ col > 0 /\ row > 0
    /\ stride > width * 4
    /\ CurrentRect.x1 - CurrentRect.x0 < tileWidth
    /\ CurrentRect.y1 - CurrentRect.y0 > 1
    /\ srcRead # {} /\ dstWritten # {}

\* C13: a successful decode returns an image whose buffer is exactly width*height*4
\* bytes with stride width*4, and byte y*width*4 + i of it equals native byte
\* y*rowBytes + i, for any native rowBytes >= width*4.
DecodedImagePacked ==
    (op = "Decode" /\ Returning /\ result.ok /\ rgb.rowBytes >= decOut.Width * 4) =>
        /\ Len(img.Pix) = decOut.Width * decOut.Height * 4
        /\ img.Stride = decOut.Width * 4
        /\ \A y \in 0..(decOut.Height - 1), i \in 0..(decOut.Width * 4 - 1) :
              img.Pix[y * decOut.Width * 4 + i + 1] = rgb.pixels[y * rgb.rowBytes + i + 1]

DecodedImageWitness ==
    /\ op = "Decode" /\ pc = "done" /\ result.ok
    /\ decOut.Height >= 2 /\ decOut.Width >= 2
    /\ rgb.rowBytes > decOut.Width * 4

\* the bytes of rgba.Pix inside the sub-rectangle of unit u, row by row
OwnBytes(u) ==
    [k \in 1..((u.x1 - u.x0) * 4 * (u.y1 - u.y0)) |->
        At(pix, (u.y0 + (k - 1) \div ((u.x1 - u.x0) * 4)) * stride + u.x0 * 4
                + ((k - 1) % ((u.x1 - u.x0) * 4)))]

\* unit u went through avifImageRGBToYUV
Converted(u) == u.src # <<>>

\* C14: within one call the scratch buffer is overwritten with the next tile's pixels
\* only after the conversion of the tile before it has completed: whenever the loop
\* is about to copy or has copied tile number n, the units of tiles 0..n-1 are all
\* converted, in order; and every converted unit was derived from exactly the bytes
\* of its own sub-rectangle, never from another tile's data or from stale bytes
\* beyond the current tile's tileH*tileW*4 bytes.
UnitsFromOwnTile ==
    op = "createTiles" =>
        /\ \A k \in 1..Len(units) : Converted(units[k]) => units[k].src = OwnBytes(units[k])
        /\ pc \in {"createTiles", "createAVIFTile"} =>
              /\ Len(units) = row * TileCols + col
              /\ \A k \in 1..Len(units) :
                    /\ Converted(units[k])
                    /\ units[k].row * TileCols + units[k].col = k - 1

UnitsFromOwnTileWitness ==
    /\ op = "createTiles" /\ pc = "done" /\ result.ok
    /\ Len(units) >= 4
    /\ \A k \in 1..Len(units) : Converted(units[k])
    /\ units[Len(units)].x1 - units[Len(units)].x0 < tileWidth
    /\ units[Len(units)].y1 - units[Len(units)].y0 >= 2
    /\ stride > width * 4

\* C15: in decodeAVIFToRGBA and decodeConfig the native copy of the input bytes is
\* freed exactly once on every path, and never while the decoder context still
\* exists: the decoder is destroyed first.
InputCopyFreedOnceAfterDecoder ==
    op \in {"Decode", "DecodeConfig"} =>
        /\ cData.frees <= 1
        /\ (pc = "done" /\ ~IsEmpty(data)) => (cData.state = "freed" /\ cData.frees = 1)
        /\ (pc = "done" /\ IsEmpty(data)) => (cData.state = "none" /\ cData.frees = 0)
        /\ ~Returning => cData.frees = 0
        /\ cData.state = "freed" => decoder.state # "live"
        /\ decoder.state = "live" => cData.state = "allocated"

InputCopyFreedWitness ==
    /\ op = "Decode" /\ pc = "done" /\ result.ok
    /\ cData.state = "freed" /\ cData.frees = 1
    /\ decoder.state = "destroyed"

====
